---- MODULE Spec2Model ----
(***************************************************************************)
(* Model of src/src/load-dotenv.ts: the layered .env resolver              *)
(* loadDotEnvFiles and the "shell.env" hook built by LoadDotEnv.           *)
(*                                                                         *)
(* Strings are TLA+ strings.  A Record<string,string> is a function whose  *)
(* domain is its key set, so `key in obj` is k \in DOMAIN obj and an       *)
(* absent property is a key outside the domain.  An async function is one  *)
(* frame whose pc stops at every await.                                    *)
(***************************************************************************)
EXTENDS Naturals, Sequences, FiniteSets, TLC

VARIABLES
    fs,        \* the filesystem: path -> file (a path outside DOMAIN fs does not exist)
    procEnv,   \* process.env, the ambient process environment
    frame,     \* loadDotEnvFiles activations: call id -> locals and position
    hook       \* the "shell.env" hook activation: locals and position

vars == <<fs, procEnv, frame, hook>>

(***************************************************************************)
(* Mappings and JavaScript truthiness                                      *)
(***************************************************************************)
EmptyMap == [k \in {} |-> ""]

Has(m, k) == k \in DOMAIN m

\* m[k] || ...: a string property is truthy when present and not ""
Truthy(m, k) == Has(m, k) /\ m[k] # ""

\* m[k] = v
Put(m, k, v) == [j \in DOMAIN m \cup {k} |-> IF j = k THEN v ELSE m[j]]

\* { ...a, ...b }
Merge(a, b) == [k \in DOMAIN a \cup DOMAIN b |-> IF k \in DOMAIN b THEN b[k] ELSE a[k]]

Reverse(s) == [n \in 1..Len(s) |-> s[Len(s) + 1 - n]]

Range(s) == {s[n] : n \in DOMAIN s}

(***************************************************************************)
(* The filesystem and the files it can hold                                *)
(***************************************************************************)
CallIds == {1, 2}

ProjectDir == "/proj"
OtherDir == "/cwd"
MissingDir == "/missing"
NoAccessDir == "/locked"

\* path.join(basePath, name): a zero-length segment is ignored
join(basePath, name) == IF basePath = "" THEN name ELSE basePath \o "/" \o name

\* A value as written in a file: literal text and ${VAR} references.
Lit(s) == [t |-> "lit", s |-> s]
Ref(v) == [t |-> "ref", s |-> v]
Entry(k, parts) == [key |-> k, parts |-> parts]

Absent == [exists |-> FALSE, entries |-> <<>>, err |-> FALSE]
File(entries, err) == [exists |-> TRUE, entries |-> entries, err |-> err]

\* A=<path>: every file gives A a value naming the file it came from.
OnlyA(p) == File(<<Entry("A", <<Lit(p)>>)>>, FALSE)
\* A=<path> then B=<path>:${A}
AThenB(p) == File(<<Entry("A", <<Lit(p)>>), Entry("B", <<Lit(p), Lit(":"), Ref("A")>>)>>, FALSE)
\* B=${A}, and a value that cannot be decrypted: the parser reports an error
BadB(p) == File(<<Entry("B", <<Lit(p), Lit(":"), Ref("A")>>)>>, TRUE)
\* nothing parsed, error reported
Garbage == File(<<>>, TRUE)
\* HOST=localhost, PORT=5432, DATABASE_URL=postgres://${HOST}:${PORT}/db
UrlFile ==
    File(<<Entry("HOST", <<Lit("localhost")>>),
           Entry("PORT", <<Lit("5432")>>),
           Entry("DATABASE_URL", <<Lit("postgres://"), Ref("HOST"), Lit(":"), Ref("PORT"), Lit("/db")>>)>>,
         FALSE)
\* NODE_ENV=staging
SetsNodeEnv == File(<<Entry("NODE_ENV", <<Lit("staging")>>)>>, FALSE)

\* the names of the four candidates
CandidateNames(nodeEnv) ==
    << ".env." \o nodeEnv \o ".local", ".env." \o nodeEnv, ".env.local", ".env" >>

\* the paths under the directory the process may not search
LockedPaths ==
    {join(NoAccessDir, n) : n \in Range(CandidateNames("development")) \cup Range(CandidateNames("production"))}

FileThere(fsNow, path) == path \in DOMAIN fsNow /\ fsNow[path].exists

(***************************************************************************)
(* @dotenvx/dotenvx config(): parse one file into processEnv               *)
(***************************************************************************)
\* env[name] || ''
Lookup(env, name) == IF Truthy(env, name) THEN env[name] ELSE ""

RECURSIVE expand(_, _)
expand(parts, env) ==
    IF parts = <<>> THEN ""
    ELSE LET p == Head(parts)
         IN (IF p.t = "lit" THEN p.s ELSE Lookup(env, p.s)) \o expand(Tail(parts), env)

\* The lines of one file in order; running is what the file has defined so far.
RECURSIVE Parse(_, _, _, _)
Parse(entries, running, processEnv, overload) ==
    IF entries = <<>> THEN running
    ELSE LET e == Head(entries)
             env == IF overload THEN Merge(processEnv, running) ELSE Merge(running, processEnv)
             v == IF ~overload /\ Has(processEnv, e.key)
                  THEN processEnv[e.key]
                  ELSE expand(e.parts, env)
         IN Parse(Tail(entries), Put(running, e.key, v), processEnv, overload)

\* The result of config({path, processEnv, quiet: true, overload}): the
\* mapping as config leaves it and the error it reports ("none" for none).
config(path, processEnv, overload, fsNow) ==
    IF path \in LockedPaths
    THEN [processEnv |-> processEnv, error |-> "EACCES"]
    ELSE IF ~FileThere(fsNow, path)
    THEN [processEnv |-> processEnv, error |-> "MISSING_ENV_FILE"]
    ELSE LET parsed == Parse(fsNow[path].entries, EmptyMap, processEnv, overload)
         IN [processEnv |-> Merge(processEnv, parsed),
             error |-> IF fsNow[path].err THEN "DECRYPTION_FAILED" ELSE "none"]

(***************************************************************************)
(* loadDotEnvFiles                                                         *)
(***************************************************************************)
\* fs/promises access(filePath): resolves, or rejects with EACCES or ENOENT
access(path, fsNow) ==
    IF path \in LockedPaths THEN "EACCES"
    ELSE IF FileThere(fsNow, path) THEN "ok"
    ELSE "ENOENT"

\* fileExists without its catch: the rejection reaches the caller
fileExists_NoCatch(path, fsNow) ==
    IF access(path, fsNow) = "ok"
    THEN [value |-> TRUE, threw |-> FALSE]
    ELSE [value |-> FALSE, threw |-> TRUE]

\* fileExists: true when access resolves, false when it rejects; never throws
fileExists(path, fsNow) ==
    IF access(path, fsNow) = "ok"
    THEN [value |-> TRUE, threw |-> FALSE]
    ELSE [value |-> FALSE, threw |-> FALSE]

\* process.env.NODE_ENV || options.nodeEnv || "development"
NodeEnvOf_AmbientFirst(options, env) ==
    IF Truthy(env, "NODE_ENV") THEN env.NODE_ENV
    ELSE IF Truthy(options, "nodeEnv") THEN options.nodeEnv
    ELSE "development"

\* options.nodeEnv ?? process.env.NODE_ENV ?? "development"
NodeEnvOf_Nullish(options, env) ==
    IF Has(options, "nodeEnv") THEN options.nodeEnv
    ELSE IF Has(env, "NODE_ENV") THEN env.NODE_ENV
    ELSE "development"

\* options.nodeEnv || process.env.NODE_ENV || "development"
NodeEnvOf(options, env) ==
    IF Truthy(options, "nodeEnv") THEN options.nodeEnv
    ELSE IF Truthy(env, "NODE_ENV") THEN env.NODE_ENV
    ELSE "development"

\* the files array, lowest precedence first when overload is set
Candidates_OverloadReorders(basePath, nodeEnv, options) ==
    IF Has(options, "overload") /\ options.overload
    THEN << join(basePath, ".env"),
            join(basePath, ".env.local"),
            join(basePath, ".env." \o nodeEnv),
            join(basePath, ".env." \o nodeEnv \o ".local") >>
    ELSE << join(basePath, ".env." \o nodeEnv \o ".local"),
            join(basePath, ".env." \o nodeEnv),
            join(basePath, ".env.local"),
            join(basePath, ".env") >>

\* the files array with .env.production always among the candidates
Candidates_WithProduction(basePath, nodeEnv, options) ==
    << join(basePath, ".env." \o nodeEnv \o ".local"),
       join(basePath, ".env." \o nodeEnv),
       join(basePath, ".env.local"),
       join(basePath, ".env"),
       join(basePath, ".env.production") >>

\* the files array
Candidates(basePath, nodeEnv, options) ==
    << join(basePath, ".env." \o nodeEnv \o ".local"),
       join(basePath, ".env." \o nodeEnv),
       join(basePath, ".env.local"),
       join(basePath, ".env") >>

\* if (options.overload)
OverloadOn(options) == Has(options, "overload") /\ options.overload

IdleFrame(basePath, options) ==
    [pc |-> "idle", basePath |-> basePath, options |-> options,
     nodeEnv |-> "", files |-> <<>>, revFiles |-> <<>>, i |-> 0, exists |-> FALSE,
     processEnv |-> EmptyMap, overloadedEnv |-> EmptyMap,
     log |-> <<>>, trace |-> <<>>]

\* The result mapping created as { NODE_ENV: nodeEnv } instead of {}
Enter_SeedsNodeEnv(basePath, options, env) ==
    LET nodeEnv == NodeEnvOf(options, env)
    IN [IdleFrame(basePath, options) EXCEPT
           !.pc = "fwd_access",
           !.nodeEnv = nodeEnv,
           !.files = Candidates(basePath, nodeEnv, options),
           !.i = 1,
           !.processEnv = [NODE_ENV |-> nodeEnv]]

\* The body up to the first await: processEnv, nodeEnv, files, first fileExists call.
Enter(basePath, options, env) ==
    LET nodeEnv == NodeEnvOf(options, env)
    IN [IdleFrame(basePath, options) EXCEPT
           !.pc = "fwd_access",
           !.nodeEnv = nodeEnv,
           !.files = Candidates(basePath, nodeEnv, options),
           !.i = 1]

\* processEnv declared once at module level: a call starts on what the
\* other call has put there
Call_SharedResult(c) ==
    /\ frame[c].pc = "idle"
    /\ hook.pc = "unused"
    /\ LET other == CHOOSE d \in CallIds : d # c
       IN frame' = [frame EXCEPT ![c] =
              [Enter(frame[c].basePath, frame[c].options, procEnv) EXCEPT
                   !.processEnv = frame[other].processEnv]]
    /\ UNCHANGED <<fs, procEnv, hook>>

\* A direct call loadDotEnvFiles(basePath, options)
Call(c) ==
    /\ frame[c].pc = "idle"
    /\ hook.pc = "unused"
    /\ frame' = [frame EXCEPT ![c] = Enter(frame[c].basePath, frame[c].options, procEnv)]
    /\ UNCHANGED <<fs, procEnv, hook>>

\* The file the loop is at: files[i] or [...files].reverse()[i]
CurrentFile(f) == IF f.pc \in {"fwd_access", "fwd_resume"} THEN f.files[f.i] ELSE f.revFiles[f.i]

\* fileExists(file) settles: its value goes to the if, a rejection leaves the call
ExistsBody(f, fsNow) ==
    LET file == CurrentFile(f)
        r == fileExists(file, fsNow)
    IN [f EXCEPT !.pc = IF r.threw THEN "threw"
                        ELSE IF f.pc = "fwd_access" THEN "fwd_resume" ELSE "rev_resume",
                 !.exists = r.value,
                 !.trace = Append(@, [op |-> "access", path |-> file, overload |-> FALSE])]

\* await fileExists(file): the filesystem answers
FileExistsStep(c) ==
    /\ frame[c].pc \in {"fwd_access", "rev_access"}
    /\ frame' = [frame EXCEPT ![c] = ExistsBody(frame[c], fs)]
    /\ UNCHANGED <<fs, procEnv, hook>>

\* if (result.error): the file-not-found error is logged like any other
ShouldLog_AnyError(result) == result.error # "none"

\* result.error && result.error.code !== "MISSING_ENV_FILE"
ShouldLog(result) == result.error # "none" /\ result.error # "MISSING_ENV_FILE"

\* The overload block iterating files itself instead of [...files].reverse()
AfterForward_NoReverse(f) ==
    IF OverloadOn(f.options)
    THEN [f EXCEPT !.pc = "rev_access", !.overloadedEnv = EmptyMap,
                   !.revFiles = f.files, !.i = 1]
    ELSE [f EXCEPT !.pc = "done"]

\* The overload block building on the forward mapping instead of {}
AfterForward_SeedsOverloaded(f) ==
    IF OverloadOn(f.options)
    THEN [f EXCEPT !.pc = "rev_access", !.overloadedEnv = f.processEnv,
                   !.revFiles = Reverse(f.files), !.i = 1]
    ELSE [f EXCEPT !.pc = "done"]

\* After the forward loop: the overload block, or the return.
AfterForward(f) ==
    IF OverloadOn(f.options)
    THEN [f EXCEPT !.pc = "rev_access", !.overloadedEnv = EmptyMap,
                   !.revFiles = Reverse(f.files), !.i = 1]
    ELSE [f EXCEPT !.pc = "done"]

\* The forward loop body calling config with overload: true
FwdBody_Overwrites(f, fsNow) ==
    LET file == f.files[f.i]
        result == config(file, f.processEnv, TRUE, fsNow)
        g == IF f.exists
             THEN [f EXCEPT !.processEnv = result.processEnv,
                            !.trace = Append(@, [op |-> "config", path |-> file, overload |-> TRUE]),
                            !.log = IF ShouldLog(result) THEN Append(@, file) ELSE @]
             ELSE f
    IN IF f.i < Len(f.files)
       THEN [g EXCEPT !.pc = "fwd_access", !.i = f.i + 1]
       ELSE AfterForward(g)

\* The forward loop body calling config whether or not the file exists
FwdBody_NoExistsCheck(f, fsNow) ==
    LET file == f.files[f.i]
        result == config(file, f.processEnv, FALSE, fsNow)
        g == [f EXCEPT !.processEnv = result.processEnv,
                       !.trace = Append(@, [op |-> "config", path |-> file, overload |-> FALSE]),
                       !.log = IF ShouldLog(result) THEN Append(@, file) ELSE @]
    IN IF f.i < Len(f.files)
       THEN [g EXCEPT !.pc = "fwd_access", !.i = f.i + 1]
       ELSE AfterForward(g)

\* The forward loop body leaving the loop at the first logged error
FwdBody_StopsOnError(f, fsNow) ==
    LET file == f.files[f.i]
        result == config(file, f.processEnv, FALSE, fsNow)
        g == IF f.exists
             THEN [f EXCEPT !.processEnv = result.processEnv,
                            !.trace = Append(@, [op |-> "config", path |-> file, overload |-> FALSE]),
                            !.log = IF ShouldLog(result) THEN Append(@, file) ELSE @]
             ELSE f
    IN IF f.i < Len(f.files) /\ ~(f.exists /\ ShouldLog(result))
       THEN [g EXCEPT !.pc = "fwd_access", !.i = f.i + 1]
       ELSE AfterForward(g)

\* The forward loop body parsing each file into a mapping of its own and
\* adding the keys the result does not have yet
FwdBody_FreshTarget(f, fsNow) ==
    LET file == f.files[f.i]
        result == config(file, EmptyMap, FALSE, fsNow)
        g == IF f.exists
             THEN [f EXCEPT !.processEnv = Merge(result.processEnv, f.processEnv),
                            !.trace = Append(@, [op |-> "config", path |-> file, overload |-> FALSE]),
                            !.log = IF ShouldLog(result) THEN Append(@, file) ELSE @]
             ELSE f
    IN IF f.i < Len(f.files)
       THEN [g EXCEPT !.pc = "fwd_access", !.i = f.i + 1]
       ELSE AfterForward(g)

\* The forward loop body trying a file again when config reports an error
FwdBody_RetriesOnError(f, fsNow) ==
    LET file == f.files[f.i]
        result == config(file, f.processEnv, FALSE, fsNow)
        g == IF f.exists
             THEN [f EXCEPT !.processEnv = result.processEnv,
                            !.trace = Append(@, [op |-> "config", path |-> file, overload |-> FALSE]),
                            !.log = IF ShouldLog(result) THEN Append(@, file) ELSE @]
             ELSE f
    IN IF f.exists /\ ShouldLog(result)
       THEN [g EXCEPT !.pc = "fwd_access"]
       ELSE IF f.i < Len(f.files)
       THEN [g EXCEPT !.pc = "fwd_access", !.i = f.i + 1]
       ELSE AfterForward(g)

\* The forward loop body calling config with strict: true, which throws the
\* error instead of returning it
FwdBody_Strict(f, fsNow) ==
    LET file == f.files[f.i]
        result == config(file, f.processEnv, FALSE, fsNow)
        g == IF f.exists
             THEN [f EXCEPT !.processEnv = result.processEnv,
                            !.trace = Append(@, [op |-> "config", path |-> file, overload |-> FALSE])]
             ELSE f
    IN IF f.exists /\ result.error # "none"
       THEN [f EXCEPT !.pc = "threw"]
       ELSE IF f.i < Len(f.files)
       THEN [g EXCEPT !.pc = "fwd_access", !.i = f.i + 1]
       ELSE AfterForward(g)

\* The forward loop body after the await, up to the next await or the return.
FwdBody(f, fsNow) ==
    LET file == f.files[f.i]
        result == config(file, f.processEnv, FALSE, fsNow)
        g == IF f.exists
             THEN [f EXCEPT !.processEnv = result.processEnv,
                            !.trace = Append(@, [op |-> "config", path |-> file, overload |-> FALSE]),
                            !.log = IF ShouldLog(result) THEN Append(@, file) ELSE @]
             ELSE f
    IN IF f.i < Len(f.files)
       THEN [g EXCEPT !.pc = "fwd_access", !.i = f.i + 1]
       ELSE AfterForward(g)

\* overloadedEnv declared once at module level: the reverse pass starts on
\* what the other call has left there
FwdResume_KeepsOverloaded(c) ==
    /\ frame[c].pc = "fwd_resume"
    /\ LET g == FwdBody(frame[c], fs)
           other == CHOOSE d \in CallIds : d # c
       IN frame' = [frame EXCEPT ![c] =
              IF g.pc = "rev_access"
              THEN [g EXCEPT !.overloadedEnv = frame[other].overloadedEnv]
              ELSE g]
    /\ UNCHANGED <<fs, procEnv, hook>>

\* config called without its processEnv option: it populates process.env
FwdResume_WritesProcessEnv(c) ==
    /\ frame[c].pc = "fwd_resume"
    /\ frame' = [frame EXCEPT ![c] = FwdBody(frame[c], fs)]
    /\ procEnv' = IF frame[c].exists
                  THEN config(frame[c].files[frame[c].i], procEnv, FALSE, fs).processEnv
                  ELSE procEnv
    /\ UNCHANGED <<fs, hook>>

FwdResume(c) ==
    /\ frame[c].pc = "fwd_resume"
    /\ frame' = [frame EXCEPT ![c] = FwdBody(frame[c], fs)]
    /\ UNCHANGED <<fs, procEnv, hook>>

\* The copy guarded by if (!(key in processEnv)): forward values stay
CopyOverloaded_KeepsForward(f) ==
    [f EXCEPT !.processEnv = Merge(f.overloadedEnv, f.processEnv), !.pc = "done"]

\* for (const [key, value] of Object.entries(overloadedEnv)) processEnv[key] = value
CopyOverloaded(f) == [f EXCEPT !.processEnv = Merge(f.processEnv, f.overloadedEnv), !.pc = "done"]

\* The reverse loop body calling config with overload: false
RevBody_NonDestructive(f, fsNow) ==
    LET file == f.revFiles[f.i]
        result == config(file, f.overloadedEnv, FALSE, fsNow)
        g == IF f.exists
             THEN [f EXCEPT !.overloadedEnv = result.processEnv,
                            !.trace = Append(@, [op |-> "config", path |-> file, overload |-> TRUE])]
             ELSE f
    IN IF f.i < Len(f.revFiles)
       THEN [g EXCEPT !.pc = "rev_access", !.i = f.i + 1]
       ELSE CopyOverloaded(g)

\* The reverse loop body leaving out a file the forward loop logged an error for
RevBody_SkipsLogged(f, fsNow) ==
    LET file == f.revFiles[f.i]
        result == config(file, f.overloadedEnv, TRUE, fsNow)
        g == IF f.exists /\ file \notin Range(f.log)
             THEN [f EXCEPT !.overloadedEnv = result.processEnv,
                            !.trace = Append(@, [op |-> "config", path |-> file, overload |-> TRUE])]
             ELSE f
    IN IF f.i < Len(f.revFiles)
       THEN [g EXCEPT !.pc = "rev_access", !.i = f.i + 1]
       ELSE CopyOverloaded(g)

\* The reverse loop body after the await, up to the next await or the return.
RevBody(f, fsNow) ==
    LET file == f.revFiles[f.i]
        result == config(file, f.overloadedEnv, TRUE, fsNow)
        g == IF f.exists
             THEN [f EXCEPT !.overloadedEnv = result.processEnv,
                            !.trace = Append(@, [op |-> "config", path |-> file, overload |-> TRUE])]
             ELSE f
    IN IF f.i < Len(f.revFiles)
       THEN [g EXCEPT !.pc = "rev_access", !.i = f.i + 1]
       ELSE CopyOverloaded(g)

RevResume(c) ==
    /\ frame[c].pc = "rev_resume"
    /\ frame' = [frame EXCEPT ![c] = RevBody(frame[c], fs)]
    /\ UNCHANGED <<fs, procEnv, hook>>

\* One call from a frame to its end with nothing else running: every await
\* is answered from the same filesystem.
RECURSIVE RunAlone(_, _)
RunAlone(f, fsNow) ==
    IF f.pc \in {"fwd_access", "rev_access"} THEN RunAlone(ExistsBody(f, fsNow), fsNow)
    ELSE IF f.pc = "fwd_resume" THEN RunAlone(FwdBody(f, fsNow), fsNow)
    ELSE IF f.pc = "rev_resume" THEN RunAlone(RevBody(f, fsNow), fsNow)
    ELSE f

\* loadDotEnvFiles(basePath, options) as a function of what it reads
loadDotEnvFiles(basePath, options, env, fsNow) == RunAlone(Enter(basePath, options, env), fsNow)

(***************************************************************************)
(* The "shell.env" hook returned by LoadDotEnv({directory})                *)
(***************************************************************************)
\* input.cwd || directory
BasePathOf_Falsy(input, directory) == IF Truthy(input, "cwd") THEN input.cwd ELSE directory

\* input.cwd ?? directory
BasePathOf(input, directory) == IF Has(input, "cwd") THEN input.cwd ELSE directory

\* process.env.NODE_ENV || "development"
HookNodeEnv(env) == IF Truthy(env, "NODE_ENV") THEN env.NODE_ENV ELSE "development"

\* the options the hook passes: { nodeEnv }
HookOptions(nodeEnv) == [nodeEnv |-> nodeEnv]

\* The hook's frame before the host invokes it.  output.env is an object:
\* id is its identity, env its properties.
IdleHook(directory, input, output) ==
    [pc |-> "idle", directory |-> directory, input |-> input, output |-> output,
     basePath |-> "", nodeEnv |-> "", loaded |-> EmptyMap]

\* The hook taking the name from output.env.NODE_ENV when the host has set it
HookStart_OutputNodeEnv ==
    /\ hook.pc = "idle"
    /\ LET basePath == BasePathOf(hook.input, hook.directory)
           nodeEnv == IF Truthy(hook.output.env, "NODE_ENV") THEN hook.output.env.NODE_ENV
                      ELSE HookNodeEnv(procEnv)
       IN /\ hook' = [hook EXCEPT !.pc = "awaiting", !.basePath = basePath, !.nodeEnv = nodeEnv]
          /\ frame' = [frame EXCEPT ![1] = Enter(basePath, HookOptions(nodeEnv), procEnv)]
    /\ UNCHANGED <<fs, procEnv>>

\* The hook up to its await: basePath, nodeEnv, and the call of loadDotEnvFiles,
\* which runs to its own first await.
HookStart ==
    /\ hook.pc = "idle"
    /\ LET basePath == BasePathOf(hook.input, hook.directory)
           nodeEnv == HookNodeEnv(procEnv)
       IN /\ hook' = [hook EXCEPT !.pc = "awaiting", !.basePath = basePath, !.nodeEnv = nodeEnv]
          /\ frame' = [frame EXCEPT ![1] = Enter(basePath, HookOptions(nodeEnv), procEnv)]
    /\ UNCHANGED <<fs, procEnv>>

\* The merge testing if (!output.env[key]) instead of the in operator
MergeLoaded_Falsy(output, loaded) ==
    [output EXCEPT !.env = [k \in DOMAIN output.env \cup DOMAIN loaded |->
                               IF Truthy(output.env, k) \/ ~Has(loaded, k) THEN output.env[k] ELSE loaded[k]]]

\* for (const [key, value] of Object.entries(loaded)) if (!(key in output.env)) output.env[key] = value
MergeLoaded(output, loaded) ==
    [output EXCEPT !.env = [k \in DOMAIN output.env \cup DOMAIN loaded |->
                               IF Has(output.env, k) THEN output.env[k] ELSE loaded[k]]]

\* The default written as the literal "development" instead of nodeEnv
DefaultNodeEnv_Literal(output, nodeEnv) ==
    IF Has(output.env, "NODE_ENV") THEN output
    ELSE [output EXCEPT !.env = Put(output.env, "NODE_ENV", "development")]

\* if (!("NODE_ENV" in output.env)) output.env.NODE_ENV = nodeEnv
DefaultNodeEnv(output, nodeEnv) ==
    IF Has(output.env, "NODE_ENV") THEN output
    ELSE [output EXCEPT !.env = Put(output.env, "NODE_ENV", nodeEnv)]

\* The default written before the loaded values are merged
HookBody_DefaultFirst(h, loaded) ==
    [h EXCEPT !.pc = "done", !.loaded = loaded,
              !.output = MergeLoaded(DefaultNodeEnv(h.output, h.nodeEnv), loaded)]

\* The hook after its await, to its end.
HookBody(h, loaded) ==
    [h EXCEPT !.pc = "done", !.loaded = loaded,
              !.output = DefaultNodeEnv(MergeLoaded(h.output, loaded), h.nodeEnv)]

\* The hook reading process.env.NODE_ENV again for the default it writes
HookResume_RereadsEnv ==
    /\ hook.pc = "awaiting"
    /\ frame[1].pc \in {"done", "threw"}
    /\ hook' = IF frame[1].pc = "threw" THEN [hook EXCEPT !.pc = "threw"]
               ELSE HookBody([hook EXCEPT !.nodeEnv = HookNodeEnv(procEnv)], frame[1].processEnv)
    /\ UNCHANGED <<fs, procEnv, frame>>

\* The awaited loadDotEnvFiles settles and the hook goes on (a rejection is rethrown).
HookResume ==
    /\ hook.pc = "awaiting"
    /\ frame[1].pc \in {"done", "threw"}
    /\ hook' = IF frame[1].pc = "threw" THEN [hook EXCEPT !.pc = "threw"]
               ELSE HookBody(hook, frame[1].processEnv)
    /\ UNCHANGED <<fs, procEnv, frame>>

(***************************************************************************)
(* Initial states                                                          *)
(***************************************************************************)
NodeEnvNames == {"development", "production"}

\* process.env with NODE_ENV unset, empty, or naming an environment
ProcEnvs == {EmptyMap} \cup {[NODE_ENV |-> n] : n \in {""} \cup NodeEnvNames}

\* the options argument: {} by default, any of nodeEnv and overload given
OptionsSet ==
    {EmptyMap}
    \cup {[overload |-> o] : o \in BOOLEAN}
    \cup {[nodeEnv |-> n, overload |-> o] : n \in {"", "production"}, o \in BOOLEAN}

EnvLocalPath == join(ProjectDir, ".env.development.local")
EnvPath == join(ProjectDir, ".env.development")
LocalPath == join(ProjectDir, ".env.local")
PlainPath == join(ProjectDir, ".env")
ProdPath == join(ProjectDir, ".env.production")
OtherPlainPath == join(OtherDir, ".env")

DevPaths == {EnvLocalPath, EnvPath, LocalPath, PlainPath}
FsPaths == DevPaths \cup {ProdPath}

\* What each file may hold when loadDotEnvFiles is called directly.
FileChoices(p) ==
    IF p \in {EnvLocalPath, LocalPath} THEN {Absent, OnlyA(p), AThenB(p), BadB(p)}
    ELSE IF p \in {EnvPath, PlainPath} THEN {Absent, OnlyA(p), AThenB(p), Garbage}
    ELSE {Absent, OnlyA(p), UrlFile}

\* What each file may hold when the hook runs.
HookFileChoices(p) ==
    IF p \in {EnvLocalPath, PlainPath} THEN {Absent, AThenB(p), SetsNodeEnv}
    ELSE IF p = EnvPath THEN {Absent, OnlyA(p), Garbage}
    ELSE IF p = LocalPath THEN {Absent, BadB(p), SetsNodeEnv}
    ELSE {Absent, OnlyA(p)}

\* every assignment of one of its choices to each path
Filesystems ==
    {f \in [FsPaths -> UNION {FileChoices(p) : p \in FsPaths}] :
        \A p \in FsPaths : f[p] \in FileChoices(p)}

HookPaths == FsPaths \cup {OtherPlainPath}

HookFilesystems ==
    {f \in [HookPaths -> UNION {HookFileChoices(p) : p \in HookPaths}] :
        \A p \in HookPaths : f[p] \in HookFileChoices(p)}

UnusedFrame == [IdleFrame("", EmptyMap) EXCEPT !.pc = "unused"]
UnusedHook == [IdleHook("", EmptyMap, [id |-> 0, env |-> EmptyMap]) EXCEPT !.pc = "unused"]

\* One direct call loadDotEnvFiles(basePath, options).
Init ==
    /\ fs \in Filesystems
    /\ procEnv \in ProcEnvs
    /\ \E basePath \in {ProjectDir, MissingDir, NoAccessDir}, options \in OptionsSet :
          /\ basePath # ProjectDir => fs = [p \in FsPaths |-> OnlyA(p)]
          /\ frame = [c \in CallIds |-> IF c = 1 THEN IdleFrame(basePath, options) ELSE UnusedFrame]
    /\ hook = UnusedHook

Next == \E c \in CallIds : Call(c) \/ FileExistsStep(c) \/ FwdResume(c) \/ RevResume(c)

Spec == Init /\ [][Next]_vars

\* What each file may hold when two calls run together.
PairFileChoices(p) ==
    IF p \in {EnvLocalPath, ProdPath} THEN {Absent, OnlyA(p)}
    ELSE IF p = LocalPath THEN {Absent, BadB(p)}
    ELSE {Absent, AThenB(p)}

PairFilesystems ==
    {f \in [FsPaths -> UNION {PairFileChoices(p) : p \in FsPaths}] :
        \A p \in FsPaths : f[p] \in PairFileChoices(p)}

PairOptions == {EmptyMap, [overload |-> TRUE], [nodeEnv |-> "production"]}

\* Two direct calls on the same directory, each free to start and to go on
\* whenever the other is waiting.
InitPair ==
    /\ fs \in PairFilesystems
    /\ procEnv \in {EmptyMap, [NODE_ENV |-> "production"]}
    /\ \E first \in PairOptions, second \in PairOptions :
          frame = [c \in CallIds |-> IdleFrame(ProjectDir, IF c = 1 THEN first ELSE second)]
    /\ hook = UnusedHook

SpecPair == InitPair /\ [][Next]_vars

\* What each file may hold while another process rewrites the directory.
RaceFileChoices(p) ==
    IF p = EnvLocalPath THEN {Absent, OnlyA(p)}
    ELSE IF p = EnvPath THEN {Absent, Garbage}
    ELSE IF p = LocalPath THEN {Absent, BadB(p)}
    ELSE {Absent, AThenB(p)}

RaceFilesystems ==
    {f \in [DevPaths -> UNION {RaceFileChoices(p) : p \in DevPaths}] :
        \A p \in DevPaths : f[p] \in RaceFileChoices(p)}

\* Another process removes, creates or rewrites a candidate while a call is
\* between two of its awaits.
FileChange(p) ==
    /\ \E c \in CallIds : frame[c].pc \in {"fwd_access", "fwd_resume", "rev_access", "rev_resume"}
    /\ \E content \in RaceFileChoices(p) \ {fs[p]} : fs' = [fs EXCEPT ![p] = content]
    /\ UNCHANGED <<procEnv, frame, hook>>

\* One direct call while the files of its directory come and go.
InitRace ==
    /\ fs \in RaceFilesystems
    /\ procEnv = EmptyMap
    /\ \E options \in {EmptyMap, [overload |-> TRUE]} :
          frame = [c \in CallIds |-> IF c = 1 THEN IdleFrame(ProjectDir, options) ELSE UnusedFrame]
    /\ hook = UnusedHook

NextRace == Next \/ \E p \in DevPaths : FileChange(p)

SpecRace == InitRace /\ [][NextRace]_vars

\* What the host may have put into output.env before the hook runs.
OutputEnvs ==
    {EmptyMap, [A |-> "existing"], [A |-> ""], [NODE_ENV |-> "test"],
     [B |-> "existing", NODE_ENV |-> ""]}

\* The hook's input: cwd absent, or naming a directory, or the empty string
Inputs == {EmptyMap} \cup {[cwd |-> d] : d \in {OtherDir, MissingDir, ""}}

\* One invocation of the hook of LoadDotEnv({directory: ProjectDir}).
InitHook ==
    /\ fs \in HookFilesystems
    /\ procEnv \in ProcEnvs
    /\ frame = [c \in CallIds |-> UnusedFrame]
    /\ \E input \in Inputs, env \in OutputEnvs :
          /\ hook = IdleHook(ProjectDir, input, [id |-> 1, env |-> env])

NextHook == HookStart \/ (\E c \in CallIds : FileExistsStep(c) \/ FwdResume(c)) \/ HookResume

SpecHook == InitHook /\ [][NextHook]_vars

\* Either entry point of the module: a direct call or a hook invocation.
InitAny == Init \/ InitHook

NextAny == Next \/ NextHook

SpecAny == InitAny /\ [][NextAny]_vars

\* The runtime resumes an async function once the promise it awaits has
\* settled, and access() always settles: a hook step that can be taken is taken.
SpecHookFair == SpecHook /\ WF_vars(NextHook)

\* What each file may hold while the process environment changes.
EnvFileChoices(p) ==
    IF p \in {EnvPath, ProdPath} THEN {Absent, OnlyA(p)}
    ELSE IF p = PlainPath THEN {Absent, AThenB(p)}
    ELSE {Absent}

EnvFilesystems ==
    {f \in [FsPaths -> UNION {EnvFileChoices(p) : p \in FsPaths}] :
        \A p \in FsPaths : f[p] \in EnvFileChoices(p)}

\* Other code of the process sets, empties or deletes process.env.NODE_ENV
\* while a call or the hook is waiting.
EnvChange ==
    /\ \/ \E c \in CallIds : frame[c].pc \in {"fwd_access", "fwd_resume", "rev_access", "rev_resume"}
       \/ hook.pc = "awaiting"
    /\ procEnv' \in ProcEnvs \ {procEnv}
    /\ UNCHANGED <<fs, frame, hook>>

\* A direct call or a hook invocation while process.env.NODE_ENV changes.
InitEnv ==
    /\ fs \in EnvFilesystems
    /\ procEnv \in ProcEnvs
    /\ \/ /\ \E options \in {EmptyMap, [overload |-> TRUE], [nodeEnv |-> "", overload |-> TRUE]} :
               frame = [c \in CallIds |-> IF c = 1 THEN IdleFrame(ProjectDir, options) ELSE UnusedFrame]
          /\ hook = UnusedHook
       \/ /\ frame = [c \in CallIds |-> UnusedFrame]
          /\ \E env \in {EmptyMap, [A |-> "existing"]} :
               hook = IdleHook(ProjectDir, EmptyMap, [id |-> 1, env |-> env])

NextEnv == NextAny \/ EnvChange

SpecEnv == InitEnv /\ [][NextEnv]_vars

(***************************************************************************)
(* Vocabulary of the properties                                            *)
(***************************************************************************)
KeysOf(file) == {file.entries[n].key : n \in DOMAIN file.entries}

\* candidate n of the call exists and defines key k
Defines(f, n, k) == FileThere(fs, f.files[n]) /\ k \in KeysOf(fs[f.files[n]])

DefinedKeys(f) == {k \in {"A", "B", "NODE_ENV"} : \E n \in DOMAIN f.files : Defines(f, n, k)}

\* the highest-precedence candidate that defines k
Winner(f, k) == CHOOSE n \in DOMAIN f.files :
                    Defines(f, n, k) /\ \A m \in DOMAIN f.files : Defines(f, m, k) => n <= m

\* the paths config was called on, in call order
ConfigCalls(f, overload) ==
    SelectSeq(f.trace, LAMBDA e : e.op = "config" /\ e.overload = overload)

Returned(c) == frame[c].pc = "done"

\* the four candidate paths spelled out (an empty basePath leaves the bare
\* names, looked up in the process's working directory)
FourPaths(basePath, nodeEnv) ==
    LET dir == IF basePath = "" THEN "" ELSE basePath \o "/"
    IN << dir \o ".env." \o nodeEnv \o ".local",
          dir \o ".env." \o nodeEnv,
          dir \o ".env.local",
          dir \o ".env" >>

(***************************************************************************)
(* C1: with overload off, every key defined in an existing candidate is    *)
(* returned with the value of the highest-precedence existing candidate    *)
(* that defines it: the value that file gives the key, its ${VAR}          *)
(* references resolved against the keys of the candidates above it.        *)
(***************************************************************************)
C1_HighestPrecedenceWins ==
    \A c \in CallIds :
        (Returned(c) /\ ~OverloadOn(frame[c].options)) =>
            LET f == frame[c]
            IN \A k \in DefinedKeys(f) :
                  LET w == Winner(f, k)
                      above == {j \in DOMAIN f.processEnv : \E m \in 1..(w - 1) : Defines(f, m, j)}
                      known == [j \in above |-> f.processEnv[j]]
                  IN /\ Has(f.processEnv, k)
                     /\ f.processEnv[k] = Parse(fs[f.files[w]].entries, EmptyMap, known, FALSE)[k]

\* all of A's definitions lose to .env.development.local; B comes from .env alone
C1_Witness ==
    /\ Returned(1) /\ ~OverloadOn(frame[1].options)
    /\ Defines(frame[1], 1, "A") /\ Defines(frame[1], 4, "A")
    /\ Defines(frame[1], 4, "B") /\ \A m \in 1..3 : ~Defines(frame[1], m, "B")
    /\ frame[1].processEnv["A"] = EnvLocalPath
    /\ frame[1].processEnv["B"] = PlainPath \o ":" \o EnvLocalPath

(***************************************************************************)
(* C2: with overload on, every key defined in more than one existing       *)
(* candidate is returned with the value the highest-precedence of them     *)
(* gives it (parsed on top of the candidates below it).                    *)
(***************************************************************************)
RECURSIVE BelowMerged(_, _)
BelowMerged(f, n) ==
    IF n > Len(f.files) THEN EmptyMap
    ELSE IF FileThere(fs, f.files[n])
         THEN config(f.files[n], BelowMerged(f, n + 1), TRUE, fs).processEnv
         ELSE BelowMerged(f, n + 1)

C2_OverloadHighestStillWins ==
    \A c \in CallIds :
        (Returned(c) /\ OverloadOn(frame[c].options)) =>
            LET f == frame[c]
            IN \A k \in DefinedKeys(f) :
                  Cardinality({n \in DOMAIN f.files : Defines(f, n, k)}) > 1 =>
                      LET w == Winner(f, k)
                      IN /\ Has(f.processEnv, k)
                         /\ f.processEnv[k] =
                               Parse(fs[f.files[w]].entries, EmptyMap, BelowMerged(f, w + 1), TRUE)[k]

C2_Witness ==
    /\ Returned(1) /\ OverloadOn(frame[1].options)
    /\ Defines(frame[1], 1, "A") /\ Defines(frame[1], 4, "A")
    /\ frame[1].processEnv["A"] = EnvLocalPath

(***************************************************************************)
(* C3: the hook never overrides: every step leaves each key of output.env  *)
(* (an empty-valued one too) with its value, output.env stays the same     *)
(* object, and when the hook ends every resolved key that was absent is    *)
(* present with the resolved value.                                        *)
(***************************************************************************)
C3_HookNonOverride ==
    [][ /\ hook'.output.id = hook.output.id
        /\ \A k \in DOMAIN hook.output.env :
              Has(hook'.output.env, k) /\ hook'.output.env[k] = hook.output.env[k]
        /\ (hook.pc = "awaiting" /\ hook'.pc = "done") =>
              \A k \in DOMAIN frame[1].processEnv \ DOMAIN hook.output.env :
                  Has(hook'.output.env, k) /\ hook'.output.env[k] = frame[1].processEnv[k]
      ]_vars

\* A was "" before and is resolved too; B is resolved and was absent
C3_Witness ==
    /\ hook.pc = "done"
    /\ Has(hook.loaded, "A") /\ hook.loaded["A"] # ""
    /\ Has(hook.output.env, "A") /\ hook.output.env["A"] = ""
    /\ Has(hook.loaded, "B") /\ hook.output.env["B"] = hook.loaded["B"]

(***************************************************************************)
(* C4: in every call, whatever the options, files is the four paths        *)
(* .env.<env>.local, .env.<env>, .env.local, .env under basePath in that   *)
(* order, and no other path is checked or parsed.                          *)
(***************************************************************************)
C4_CandidateListFixed ==
    \A c \in CallIds :
        frame[c].pc \notin {"idle", "unused"} =>
            LET f == frame[c]
            IN /\ f.files = FourPaths(f.basePath, f.nodeEnv)
               /\ \A n \in DOMAIN f.trace : f.trace[n].path \in Range(FourPaths(f.basePath, f.nodeEnv))

C4_Witness ==
    /\ Returned(1) /\ OverloadOn(frame[1].options)
    /\ frame[1].nodeEnv = "production"
    /\ Len(ConfigCalls(frame[1], TRUE)) > 1

(***************************************************************************)
(* C5: loadDotEnvFiles never throws or rejects: a call is never in the     *)
(* thrown position, it can always take its next step until it returns,     *)
(* and what it returns is a mapping of strings.                            *)
(***************************************************************************)
C5_NeverThrows ==
    \A c \in CallIds :
        /\ frame[c].pc # "threw"
        /\ frame[c].pc \in {"idle", "fwd_access", "fwd_resume", "rev_access", "rev_resume"} =>
              ENABLED (Call(c) \/ FileExistsStep(c) \/ FwdResume(c) \/ RevResume(c))
        /\ Returned(c) => frame[c].processEnv \in [DOMAIN frame[c].processEnv -> STRING]

\* a call returned although one candidate was missing and another was logged
C5_Witness ==
    /\ Returned(1)
    /\ frame[1].log # <<>>
    /\ \E n \in DOMAIN frame[1].files : ~FileThere(fs, frame[1].files[n])

(***************************************************************************)
(* C6: when no candidate exists (the base directory may not exist) the     *)
(* call returns the empty mapping, never calls the parser and logs         *)
(* nothing, with overload off or on.                                       *)
(***************************************************************************)
C6_NothingExists ==
    \A c \in CallIds :
        LET f == frame[c]
        IN (f.pc \notin {"idle", "unused"} /\ \A n \in DOMAIN f.files : ~FileThere(fs, f.files[n])) =>
              /\ f.log = <<>>
              /\ \A n \in DOMAIN f.trace : f.trace[n].op # "config"
              /\ f.processEnv = EmptyMap
              /\ f.pc # "threw"

C6_Witness ==
    /\ Returned(1) /\ OverloadOn(frame[1].options)
    /\ frame[1].basePath \in {MissingDir, NoAccessDir}
    /\ frame[1].processEnv = EmptyMap
    /\ Len(frame[1].trace) = 8

(***************************************************************************)
(* C7: a parse error on candidate i does not stop resolution.              *)
(***************************************************************************)
\* candidate n exists and the parser reports an error other than file-not-found for it
ParseErrorAt(f, n) == FileThere(fs, f.files[n]) /\ fs[f.files[n]].err

\* what the candidates above candidate n have merged when candidate n is reached
RECURSIVE AboveMerged(_, _)
AboveMerged(f, n) ==
    IF n <= 1 THEN EmptyMap
    ELSE IF FileThere(fs, f.files[n - 1])
         THEN config(f.files[n - 1], AboveMerged(f, n - 1), FALSE, fs).processEnv
         ELSE AboveMerged(f, n - 1)

\* every existing candidate below candidate i has been parsed and merged
LaterCandidatesMerged(f, i) ==
    \A j \in (i + 1)..Len(f.files) :
        FileThere(fs, f.files[j]) =>
            /\ \E n \in DOMAIN f.trace :
                  /\ f.trace[n] = [op |-> "config", path |-> f.files[j], overload |-> FALSE]
                  /\ \E m \in 1..(n - 1) :
                        f.trace[m] = [op |-> "config", path |-> f.files[i], overload |-> FALSE]
            /\ KeysOf(fs[f.files[j]]) \subseteq DOMAIN f.processEnv

\* every key merged before candidate i has that value in processEnv
EarlierKeysKept(f, i) ==
    \A k \in DOMAIN AboveMerged(f, i) :
        Has(f.processEnv, k) /\ f.processEnv[k] = AboveMerged(f, i)[k]

\* C7 as stated: after a parse error on candidate i every later existing
\* candidate is parsed and merged and every key merged from the earlier
\* candidates keeps its value in the returned mapping.
C7_AsStated ==
    \A c \in CallIds :
        Returned(c) =>
            \A i \in DOMAIN frame[c].files :
                ParseErrorAt(frame[c], i) =>
                    LaterCandidatesMerged(frame[c], i) /\ EarlierKeysKept(frame[c], i)

\* C7 amended: after a parse error on candidate i every later existing
\* candidate is parsed and merged, and every key merged from the earlier
\* candidates keeps its value in the mapping the forward pass builds, which
\* is the returned mapping when overload is off; with overload on the key
\* is still returned.
C7_ErrorDoesNotStopResolution ==
    \A c \in CallIds :
        LET f == frame[c]
        IN \A i \in DOMAIN f.files :
              ParseErrorAt(f, i) =>
                  /\ (f.pc \in {"rev_access", "rev_resume"} \/ (Returned(c) /\ ~OverloadOn(f.options))) =>
                        LaterCandidatesMerged(f, i) /\ EarlierKeysKept(f, i)
                  /\ Returned(c) =>
                        /\ LaterCandidatesMerged(f, i)
                        /\ DOMAIN AboveMerged(f, i) \subseteq DOMAIN f.processEnv

\* .env.local reported an error after A was merged; .env was still parsed
C7_Witness ==
    /\ Returned(1) /\ ~OverloadOn(frame[1].options)
    /\ ParseErrorAt(frame[1], 3)
    /\ Has(AboveMerged(frame[1], 3), "A")
    /\ FileThere(fs, frame[1].files[4])
    /\ frame[1].log = <<frame[1].files[3]>>
    /\ frame[1].processEnv["A"] = AboveMerged(frame[1], 3)["A"]

(***************************************************************************)
(* C8: the runtime environment name the candidate list is built from.      *)
(***************************************************************************)
\* C8 as stated: options.nodeEnv when supplied, else the ambient NODE_ENV
\* when set, else "development".
C8_AsStated ==
    \A c \in CallIds :
        frame[c].pc \notin {"idle", "unused"} =>
            frame[c].nodeEnv =
                IF Has(frame[c].options, "nodeEnv") THEN frame[c].options.nodeEnv
                ELSE IF Has(procEnv, "NODE_ENV") THEN procEnv.NODE_ENV
                ELSE "development"

\* C8 amended: options.nodeEnv when supplied and not empty, else the ambient
\* NODE_ENV when set and not empty, else "development"; the candidates
\* carry that name.
C8_EffectiveNodeEnv ==
    \A c \in CallIds :
        frame[c].pc \notin {"idle", "unused"} =>
            LET o == frame[c].options
                supplied == Has(o, "nodeEnv") /\ o.nodeEnv # ""
                ambient == Has(procEnv, "NODE_ENV") /\ procEnv.NODE_ENV # ""
            IN /\ supplied => frame[c].nodeEnv = o.nodeEnv
               /\ (~supplied /\ ambient) => frame[c].nodeEnv = procEnv.NODE_ENV
               /\ (~supplied /\ ~ambient) => frame[c].nodeEnv = "development"
               /\ frame[c].files[1] = frame[c].basePath \o "/.env." \o frame[c].nodeEnv \o ".local"
               /\ frame[c].files[2] = frame[c].basePath \o "/.env." \o frame[c].nodeEnv

\* options.nodeEnv is given and the ambient NODE_ENV names another environment
C8_Witness ==
    /\ Returned(1)
    /\ Has(frame[1].options, "nodeEnv") /\ frame[1].options.nodeEnv = "production"
    /\ Has(procEnv, "NODE_ENV") /\ procEnv.NODE_ENV = "development"
    /\ frame[1].files[2] = ProdPath

(***************************************************************************)
(* C9: when the hook ends output.env has a NODE_ENV entry; when neither    *)
(* output.env nor the resolved mapping had one, it is the name the hook    *)
(* passed to the resolver: the ambient NODE_ENV, else "development".       *)
(***************************************************************************)
C9_HookSetsNodeEnv ==
    [][ (hook.pc = "awaiting" /\ hook'.pc = "done") =>
            /\ Has(hook'.output.env, "NODE_ENV")
            /\ (~Has(hook.output.env, "NODE_ENV") /\ ~Has(frame[1].processEnv, "NODE_ENV")) =>
                  /\ hook'.output.env["NODE_ENV"] = frame[1].options.nodeEnv
                  /\ hook'.output.env["NODE_ENV"] = frame[1].nodeEnv
                  /\ hook'.output.env["NODE_ENV"] =
                        IF Has(procEnv, "NODE_ENV") /\ procEnv.NODE_ENV # ""
                        THEN procEnv.NODE_ENV ELSE "development"
      ]_vars

\* no file and no host value gave NODE_ENV (the host values are "test" and ""):
\* the hook wrote the ambient name
C9_Witness ==
    /\ hook.pc = "done"
    /\ ~Has(hook.loaded, "NODE_ENV")
    /\ Has(procEnv, "NODE_ENV") /\ procEnv.NODE_ENV = "production"
    /\ hook.output.env["NODE_ENV"] = "production"

(***************************************************************************)
(* C10: the hook with NODE_ENV unset in the process and in output.env.     *)
(***************************************************************************)
\* the paths whose existence the call checked, in order
Checked(f) == [n \in 1..Len(SelectSeq(f.trace, LAMBDA e : e.op = "access")) |->
                  SelectSeq(f.trace, LAMBDA e : e.op = "access")[n].path]

C11_NoDefaultedKeys ==
    \A c \in CallIds :
        Returned(c) =>
            LET f == frame[c]
                there == {n \in DOMAIN f.files : FileThere(fs, f.files[n])}
            IN /\ DOMAIN f.processEnv \subseteq UNION {KeysOf(fs[f.files[n]]) : n \in there}
               /\ Has(f.processEnv, "NODE_ENV") => \E n \in there : Defines(f, n, "NODE_ENV")

\* NODE_ENV is set in the process and names the candidates; the files define A only
C11_Witness ==
    /\ Returned(1) /\ OverloadOn(frame[1].options)
    /\ Truthy(procEnv, "NODE_ENV") /\ frame[1].nodeEnv = procEnv.NODE_ENV
    /\ DOMAIN frame[1].processEnv = {"A"}
    /\ "B" \notin DefinedKeys(frame[1])

(***************************************************************************)
(* C12: a resolution returns the mapping that the same call returns on     *)
(* every filesystem that holds the same four candidate files and anything  *)
(* at all in the other paths: the other files never influence the result.  *)
(***************************************************************************)
\* anything a path may hold
AnyFile(p) == {Absent, OnlyA(p), AThenB(p), BadB(p), Garbage}

\* the paths of the base directory that hold a file of some environment
InBaseDir(basePath) ==
    {join(basePath, n) : n \in Range(CandidateNames("development")) \cup Range(CandidateNames("production"))}
        \cap DOMAIN fs

\* the filesystems that differ from fs at most in the paths in others
DifferingIn(others) ==
    LET contents == {h \in [others -> UNION {AnyFile(p) : p \in others}] :
                        \A p \in others : h[p] \in AnyFile(p)}
    IN {[p \in DOMAIN fs |-> IF p \in others THEN h[p] ELSE fs[p]] : h \in contents}

SameArguments(c, d) ==
    frame[c].basePath = frame[d].basePath /\ frame[c].options = frame[d].options

C13_Idempotent ==
    [][ /\ \A c \in CallIds, d \in CallIds :
              (Returned(c) /\ Returned(d) /\ SameArguments(c, d))' =>
                  frame'[c].processEnv = frame'[d].processEnv
        /\ \A c \in CallIds :
              Returned(c) => frame'[c].processEnv = frame[c].processEnv
      ]_vars

\* both calls had overload on and returned B with the reference to A unresolved
C13_Witness ==
    /\ Returned(1) /\ Returned(2) /\ SameArguments(1, 2)
    /\ OverloadOn(frame[1].options)
    /\ Has(frame[1].processEnv, "A")
    /\ Has(frame[2].processEnv, "B") /\ frame[2].processEnv["B"] = LocalPath \o ":"

(***************************************************************************)
(* C14: however the steps of two calls interleave at their awaits, each    *)
(* call returns the mapping it returns when it runs alone, and a step of   *)
(* one call leaves the locals of the other as they were.                   *)
(***************************************************************************)
C14_NoInterference ==
    [][ \A c \in CallIds :
           /\ Returned(c)' =>
                 frame'[c].processEnv =
                     loadDotEnvFiles(frame[c].basePath, frame[c].options, procEnv, fs).processEnv
           /\ frame'[c] # frame[c] => \A d \in CallIds \ {c} : frame'[d] = frame[d]
      ]_vars

\* call 1 has returned for development while call 2 is in the middle of its
\* forward loop for production, holding another A
C14_Witness ==
    /\ Returned(1) /\ frame[1].nodeEnv = "development"
    /\ frame[2].pc = "fwd_resume" /\ frame[2].i = 3 /\ frame[2].nodeEnv = "production"
    /\ Has(frame[1].processEnv, "A") /\ Has(frame[2].processEnv, "A")
    /\ frame[1].processEnv["A"] # frame[2].processEnv["A"]

(***************************************************************************)
(* C15: no step of loadDotEnvFiles or of the hook writes process.env (or   *)
(* a file): the process environment, NODE_ENV included, is after every     *)
(* step what it was before; loaded values go to the call's mappings and    *)
(* to output.env only.                                                     *)
(***************************************************************************)
C15_ProcessEnvUntouched ==
    [][ /\ procEnv' = procEnv
        /\ fs' = fs
        /\ \A k \in DOMAIN procEnv : Has(procEnv', k) /\ procEnv'[k] = procEnv[k]
      ]_vars

\* the hook has put a loaded A into output.env; process.env has NODE_ENV and no A
C15_Witness ==
    /\ hook.pc = "done"
    /\ Has(hook.loaded, "A") /\ Has(hook.output.env, "A")
    /\ Truthy(procEnv, "NODE_ENV") /\ ~Has(procEnv, "A")

(***************************************************************************)
(* C16: the hook calls loadDotEnvFiles with input.cwd when the input has   *)
(* one (the empty string too) and with the configured directory otherwise, *)
(* with options that hold nodeEnv = the process's NODE_ENV, or             *)
(* "development" when that is unset or empty, and nothing else: overload   *)
(* is never on and config is never called with overload: true.             *)
(***************************************************************************)
C16_HookArguments ==
    hook.pc \in {"awaiting", "done", "threw"} =>
        LET f == frame[1]
            name == IF Has(procEnv, "NODE_ENV") /\ procEnv.NODE_ENV # ""
                    THEN procEnv.NODE_ENV ELSE "development"
        IN /\ f.basePath = (IF "cwd" \in DOMAIN hook.input THEN hook.input.cwd ELSE hook.directory)
           /\ f.options = [nodeEnv |-> name]
           /\ f.nodeEnv = name
           /\ ~OverloadOn(f.options)
           /\ f.pc \notin {"rev_access", "rev_resume"}
           /\ \A n \in DOMAIN f.trace : ~f.trace[n].overload

\* input.cwd names another directory and NODE_ENV is production: A comes from there
C16_Witness ==
    /\ hook.pc = "done"
    /\ Has(hook.input, "cwd") /\ hook.input.cwd = OtherDir /\ hook.directory = ProjectDir
    /\ Truthy(procEnv, "NODE_ENV") /\ frame[1].nodeEnv = "production"
    /\ Has(hook.loaded, "A") /\ hook.loaded["A"] = OtherPlainPath
    /\ \E n \in DOMAIN frame[1].trace : frame[1].trace[n].op = "config"

(***************************************************************************)
(* C17: a candidate that is absent when the loop reads it, whether         *)
(* fileExists said so or the file went away after fileExists saw it,       *)
(* adds no log entry and no key, and the call goes on normally.            *)
(***************************************************************************)
C17_AbsentIsSilent ==
    [][ \A c \in CallIds :
           LET f == frame[c]
               g == frame'[c]
           IN (f.pc \in {"fwd_resume", "rev_resume"} /\ g # f /\ ~FileThere(fs, CurrentFile(f))) =>
                 /\ g.log = f.log
                 /\ g.pc \in {"fwd_access", "rev_access", "done"}
                 /\ f.pc = "fwd_resume" => g.processEnv = f.processEnv
                 /\ f.pc = "rev_resume" => g.overloadedEnv = f.overloadedEnv
      ]_vars

\* .env.development.local always defines A: config was called on it and the
\* call returned nothing and logged nothing, so the file was gone at the read
C17_Witness ==
    /\ Returned(1)
    /\ \E n \in DOMAIN frame[1].trace :
          frame[1].trace[n].op = "config" /\ frame[1].trace[n].path = EnvLocalPath
    /\ frame[1].processEnv = EmptyMap
    /\ frame[1].log = <<>>

(***************************************************************************)
(* C18: with overload off, a value holding ${VAR} is returned with the     *)
(* reference replaced by the value VAR has in the mapping: the file of     *)
(* HOST, PORT and DATABASE_URL=postgres://${HOST}:${PORT}/db yields        *)
(* postgres://localhost:5432/db, and B=<file>:${A} yields <file>: followed *)
(* by the returned A when A is defined earlier in the same file or in a    *)
(* candidate above it.                                                     *)
(***************************************************************************)
C18_Expansion ==
    \A c \in CallIds :
        (Returned(c) /\ ~OverloadOn(frame[c].options)) =>
            LET f == frame[c]
            IN /\ (\E n \in DOMAIN f.files : FileThere(fs, f.files[n]) /\ fs[f.files[n]] = UrlFile) =>
                      /\ {"HOST", "PORT", "DATABASE_URL"} \subseteq DOMAIN f.processEnv
                      /\ f.processEnv["HOST"] = "localhost"
                      /\ f.processEnv["PORT"] = "5432"
                      /\ f.processEnv["DATABASE_URL"] = "postgres://localhost:5432/db"
               /\ ("B" \in DefinedKeys(f) /\ \E m \in 1..Winner(f, "B") : Defines(f, m, "A")) =>
                      /\ f.processEnv["A"] = f.files[Winner(f, "A")]
                      /\ f.processEnv["B"] = f.files[Winner(f, "B")] \o ":" \o f.processEnv["A"]

\* production: .env.production is the file of the URL; B of .env refers to A,
\* which .env defines too and .env.local above it defines first
C18_Witness ==
    /\ Returned(1) /\ ~OverloadOn(frame[1].options)
    /\ frame[1].nodeEnv = "production" /\ fs[ProdPath] = UrlFile
    /\ Has(frame[1].processEnv, "DATABASE_URL")
    /\ Defines(frame[1], 3, "A") /\ ~Defines(frame[1], 3, "B")
    /\ Defines(frame[1], 4, "A") /\ Defines(frame[1], 4, "B")
    /\ frame[1].processEnv["B"] = PlainPath \o ":" \o LocalPath

(***************************************************************************)
(* C19: overload gives no lower-precedence file the last word.  As stated: *)
(* some configuration of the candidates makes a call with overload on      *)
(* return, for a key that a higher-precedence existing candidate defines,  *)
(* the value of a lower-precedence one.  As it is: with overload on and    *)
(* the files unchanged during the call, the value returned for a key that  *)
(* two existing candidates define is never the lower one's.                *)
(***************************************************************************)
\* what a reference may find in the mapping
KnownContexts == {EmptyMap} \cup {[A |-> p] : p \in FsPaths}

\* v is a value the file gives k (whatever its references resolve to)
ComesFrom(v, file, k) ==
    \E known \in KnownContexts : v = Parse(file.entries, EmptyMap, known, TRUE)[k]

\* in the result r of a call on g, key k has the value of candidate lower
\* although candidate higher exists and defines it
LowerWins(r, g, k, higher, lower) ==
    /\ higher < lower
    /\ FileThere(g, r.files[higher]) /\ k \in KeysOf(g[r.files[higher]])
    /\ FileThere(g, r.files[lower]) /\ k \in KeysOf(g[r.files[lower]])
    /\ Has(r.processEnv, k)
    /\ ComesFrom(r.processEnv[k], g[r.files[lower]], k)

\* for the call at hand, if overload is on, some content of the directory
\* makes a lower-precedence candidate win
C19_AsStated ==
    \A c \in CallIds :
        (frame[c].pc = "idle" /\ frame[c].basePath = ProjectDir /\ OverloadOn(frame[c].options)) =>
            \E g \in Filesystems :
                LET r == loadDotEnvFiles(frame[c].basePath, frame[c].options, procEnv, g)
                IN \E k \in {"A", "B"}, higher \in DOMAIN r.files, lower \in DOMAIN r.files :
                      LowerWins(r, g, k, higher, lower)

C19_OverloadNeverLetsLowerWin ==
    \A c \in CallIds :
        (Returned(c) /\ OverloadOn(frame[c].options)) =>
            \A k \in {"A", "B"}, higher \in DOMAIN frame[c].files, lower \in DOMAIN frame[c].files :
                ~LowerWins(frame[c], fs, k, higher, lower)

\* .env.development and .env both define B next to A: B is .env.development's
C19_Witness ==
    /\ Returned(1) /\ OverloadOn(frame[1].options)
    /\ Defines(frame[1], 2, "B") /\ Defines(frame[1], 4, "B")
    /\ ~Defines(frame[1], 1, "B") /\ ~Defines(frame[1], 1, "A")
    /\ frame[1].processEnv["B"] = EnvPath \o ":" \o EnvPath

(***************************************************************************)
(* C20: with overload on, the reverse loop leaves the forward mapping as   *)
(* the forward loop built it, and the step that returns makes the result   *)
(* the forward mapping overwritten by the reverse one: the keys are those  *)
(* of both, a key of the reverse mapping has its reverse value, any other  *)
(* key keeps its forward value; also when files change in between.         *)
(***************************************************************************)
C20_ForwardOverwrittenByReverse ==
    [][ \A c \in CallIds :
           LET f == frame[c]
               g == frame'[c]
           IN /\ (f.pc \in {"rev_access", "rev_resume"} /\ g.pc # "done") =>
                    g.processEnv = f.processEnv
              /\ (f.pc = "rev_resume" /\ g.pc = "done") =>
                    /\ DOMAIN g.processEnv = DOMAIN f.processEnv \cup DOMAIN g.overloadedEnv
                    /\ \A k \in DOMAIN g.overloadedEnv : g.processEnv[k] = g.overloadedEnv[k]
                    /\ \A k \in DOMAIN f.processEnv \ DOMAIN g.overloadedEnv :
                          g.processEnv[k] = f.processEnv[k]
      ]_vars

\* .env.development.local was there for the forward loop and gone for the
\* reverse one: A is the forward value, B the reverse one with A unresolved
C20_Witness ==
    /\ Returned(1) /\ OverloadOn(frame[1].options)
    /\ frame[1].overloadedEnv = [B |-> LocalPath \o ":"]
    /\ frame[1].processEnv = [A |-> EnvLocalPath, B |-> LocalPath \o ":"]

(***************************************************************************)
(* C21: whatever the overload option, no step of the forward loop changes  *)
(* or removes a key the primary mapping already holds: the mapping only    *)
(* gains keys until the copy of the overload block.                        *)
(***************************************************************************)
C21_ForwardNonDestructive ==
    [][ \A c \in CallIds :
           LET f == frame[c]
               g == frame'[c]
           IN f.pc \in {"fwd_access", "fwd_resume"} =>
                 \A k \in DOMAIN f.processEnv :
                     Has(g.processEnv, k) /\ g.processEnv[k] = f.processEnv[k]
      ]_vars

\* overload is on and the forward loop has just ended: .env, which defines A
\* and B, was merged last and A is still that of .env.development.local
C21_Witness ==
    /\ OverloadOn(frame[1].options)
    /\ frame[1].pc = "rev_access" /\ frame[1].i = 1
    /\ Defines(frame[1], 1, "A") /\ Defines(frame[1], 4, "A") /\ Defines(frame[1], 4, "B")
    /\ \A m \in 1..3 : ~Defines(frame[1], m, "B")
    /\ frame[1].processEnv["A"] = frame[1].files[1]
    /\ Has(frame[1].processEnv, "B")

(***************************************************************************)
(* C22: the checks and parses of one call happen one at a time and in      *)
(* order: the paths checked are, in order, a prefix of the four candidates *)
(* highest precedence first followed, only when overload is on, by the     *)
(* same four lowest precedence first; a file is parsed right after its own *)
(* check and before the next check; the reverse loop starts after the      *)
(* fourth forward check and parse, from an empty mapping.                  *)
(***************************************************************************)
IsPrefix(s, t) == Len(s) <= Len(t) /\ \A n \in DOMAIN s : s[n] = t[n]

\* the number of existence checks among the first n events of the call
ChecksUpTo(f, n) == Cardinality({m \in 1..n : f.trace[m].op = "access"})

C22_SequentialInOrder ==
    \A c \in CallIds :
        frame[c].pc \notin {"idle", "unused"} =>
            LET f == frame[c]
                four == FourPaths(f.basePath, f.nodeEnv)
                order == IF OverloadOn(f.options) THEN four \o Reverse(four) ELSE four
            IN /\ IsPrefix(Checked(f), order)
               /\ \A n \in DOMAIN f.trace :
                     f.trace[n].op = "config" =>
                         /\ n > 1
                         /\ f.trace[n - 1].op = "access"
                         /\ f.trace[n - 1].path = f.trace[n].path
                         /\ f.trace[n].overload = (ChecksUpTo(f, n) > Len(four))
               /\ f.pc \in {"fwd_access", "rev_access"} =>
                     ChecksUpTo(f, Len(f.trace)) =
                         (IF f.pc = "rev_access" THEN Len(four) ELSE 0) + f.i - 1
               /\ f.pc \in {"rev_access", "rev_resume"} => OverloadOn(f.options)
               /\ (f.pc \in {"rev_access", "rev_resume"} /\ f.i = 1) => f.overloadedEnv = EmptyMap

\* the reverse loop is about to start: all four files were checked and parsed
\* in the forward order, the primary mapping is filled, the second one is empty
C22_Witness ==
    /\ frame[1].pc = "rev_access" /\ frame[1].i = 1
    /\ Len(ConfigCalls(frame[1], FALSE)) = Len(frame[1].files)
    /\ ConfigCalls(frame[1], TRUE) = <<>>
    /\ DOMAIN frame[1].processEnv = {"A", "B"}
    /\ frame[1].overloadedEnv = EmptyMap

(***************************************************************************)
(* C23: a call does a bounded amount of work and ends: at most 4 existence *)
(* checks and 4 config calls with overload off, each candidate at most     *)
(* once, at most 8 of each with overload on, each candidate at most twice; *)
(* and every step of the call brings it nearer to its return.              *)
(***************************************************************************)
Events(f, op, paths) ==
    Cardinality({n \in DOMAIN f.trace : f.trace[n].op = op /\ f.trace[n].path \in paths})

\* the most steps the call can still take
StepsLeft(f) ==
    LET second == IF OverloadOn(f.options) THEN 8 ELSE 0
    IN IF f.pc = "idle" THEN 9 + second
       ELSE IF f.pc = "fwd_access" THEN 2 * (4 - f.i) + 2 + second
       ELSE IF f.pc = "fwd_resume" THEN 2 * (4 - f.i) + 1 + second
       ELSE IF f.pc = "rev_access" THEN 2 * (4 - f.i) + 2
       ELSE IF f.pc = "rev_resume" THEN 2 * (4 - f.i) + 1
       ELSE 0

C23_BoundedWork ==
    [][ \A c \in CallIds :
           LET f == frame[c]
               g == frame'[c]
               most == IF OverloadOn(g.options) THEN 8 ELSE 4
               each == IF OverloadOn(g.options) THEN 2 ELSE 1
           IN /\ Events(g, "access", Range(g.files)) <= most
              /\ Events(g, "config", Range(g.files)) <= most
              /\ \A p \in Range(g.files) :
                    Events(g, "access", {p}) <= each /\ Events(g, "config", {p}) <= each
              /\ Len(g.trace) = Events(g, "access", Range(g.files)) + Events(g, "config", Range(g.files))
              /\ g # f => StepsLeft(g) < StepsLeft(f)
      ]_vars

\* overload on, all four candidates exist: 8 checks, 8 parses, and the return
C23_Witness ==
    /\ Returned(1) /\ OverloadOn(frame[1].options)
    /\ Events(frame[1], "access", Range(frame[1].files)) = 8
    /\ Events(frame[1], "config", Range(frame[1].files)) = 8

(***************************************************************************)
(* C24: every parse or decrypt failure other than file-not-found is logged *)
(* with the path of its file, in the forward loop and in the reverse loop: *)
(* a step that parses a file for which config reports such an error leaves *)
(* the path of that file in the log.                                       *)
(***************************************************************************)
\* the error config reports when the loop at f parses its current file
ErrorNow(f) ==
    config(CurrentFile(f), IF f.pc = "fwd_resume" THEN f.processEnv ELSE f.overloadedEnv,
           f.pc = "rev_resume", fs).error

C24_AsStated ==
    [][ \A c \in CallIds :
           LET f == frame[c]
               g == frame'[c]
           IN (/\ f.pc \in {"fwd_resume", "rev_resume"} /\ g # f
               /\ f.exists
               /\ ErrorNow(f) \notin {"none", "MISSING_ENV_FILE"}) =>
                  CurrentFile(f) \in Range(g.log)
      ]_vars

\* the forward loop alone keeps the statement
C24_ForwardLogged ==
    [][ \A c \in CallIds :
           LET f == frame[c]
               g == frame'[c]
           IN (/\ f.pc = "fwd_resume" /\ g # f
               /\ f.exists
               /\ ErrorNow(f) \notin {"none", "MISSING_ENV_FILE"}) =>
                  g.log = Append(f.log, CurrentFile(f))
      ]_vars

(***************************************************************************)
(* C25: with overload on the reverse loop reads every candidate anew: it   *)
(* checks all four again, and parses each one that exists at that moment   *)
(* into the second mapping, whether or not the forward loop logged an      *)
(* error for it.                                                           *)
(***************************************************************************)
C25_PassesIndependent ==
    [][ \A c \in CallIds :
           LET f == frame[c]
               g == frame'[c]
               file == CurrentFile(f)
           IN /\ (f.pc = "rev_access" /\ g # f) =>
                    /\ g.pc = "rev_resume"
                    /\ g.exists = FileThere(fs, file)
              /\ (f.pc = "rev_resume" /\ g # f /\ f.exists) =>
                    /\ g.trace = Append(f.trace, [op |-> "config", path |-> file, overload |-> TRUE])
                    /\ g.overloadedEnv = config(file, f.overloadedEnv, TRUE, fs).processEnv
              /\ (f.pc = "rev_resume" /\ g.pc = "done") =>
                    Checked(g) = f.files \o Reverse(f.files)
      ]_vars

\* the forward loop logged .env.local, and the reverse loop parsed it again:
\* its B is in the second mapping and in the result
C25_Witness ==
    /\ Returned(1) /\ OverloadOn(frame[1].options)
    /\ LocalPath \in Range(frame[1].log)
    /\ \E n \in DOMAIN frame[1].trace :
          frame[1].trace[n] = [op |-> "config", path |-> LocalPath, overload |-> TRUE]
    /\ Has(frame[1].overloadedEnv, "B") /\ frame[1].overloadedEnv["B"] = LocalPath \o ":"
    /\ frame[1].processEnv["B"] = LocalPath \o ":"

(***************************************************************************)
(* C26: process.env.NODE_ENV is read once, before the first await: however *)
(* it changes while a call or the hook is in progress, the call keeps the  *)
(* name it computed when it started, every path it checks in either loop   *)
(* is one of the four candidates of that name, and the NODE_ENV the hook   *)
(* writes is the name it passed to loadDotEnvFiles.                        *)
(***************************************************************************)
C26_NodeEnvReadOnce ==
    [][ /\ \A c \in CallIds :
              LET f == frame[c]
                  g == frame'[c]
              IN /\ (f.pc = "idle" /\ g # f) =>
                       g.nodeEnv = NodeEnvOf(f.options, procEnv)
                 /\ f.pc \notin {"idle", "unused"} =>
                       /\ g.nodeEnv = f.nodeEnv
                       /\ g.files = f.files
                       /\ Range(Checked(g)) \subseteq Range(FourPaths(f.basePath, f.nodeEnv))
        /\ (hook.pc = "idle" /\ hook' # hook) =>
              /\ hook'.nodeEnv = HookNodeEnv(procEnv)
              /\ frame'[1].options = [nodeEnv |-> hook'.nodeEnv]
              /\ frame'[1].nodeEnv = hook'.nodeEnv
        /\ hook.pc = "awaiting" =>
              /\ hook'.nodeEnv = hook.nodeEnv
              /\ (hook'.pc = "done" /\ ~Has(hook.output.env, "NODE_ENV")
                     /\ ~Has(frame[1].processEnv, "NODE_ENV")) =>
                    hook'.output.env["NODE_ENV"] = frame[1].nodeEnv
      ]_vars

\* the hook started under development; NODE_ENV became production while it
\* waited; it checked the development candidates and wrote development
C26_Witness ==
    /\ hook.pc = "done"
    /\ Truthy(procEnv, "NODE_ENV") /\ procEnv.NODE_ENV = "production"
    /\ frame[1].nodeEnv = "development"
    /\ Checked(frame[1]) = FourPaths(ProjectDir, "development")
    /\ hook.output.env["NODE_ENV"] = "development"

(***************************************************************************)
(* C27: every invocation of the hook completes and never raises to the     *)
(* host, whatever the directory holds (no directory, no files, files that  *)
(* cannot be parsed or decrypted).                                         *)
(***************************************************************************)
C27_HookCompletes == [](hook.pc # "threw") /\ <>(hook.pc = "done")

\* the hook has completed although a candidate could not be parsed
C27_Witness ==
    /\ hook.pc = "done"
    /\ frame[1].pc = "done"
    /\ frame[1].log # <<>>
    /\ \E p \in Range(frame[1].log) : fs[p].err

(***************************************************************************)
(* C28: when the files do not change during the call, every existing       *)
(* candidate parses without error and no value refers to a variable, a     *)
(* call returns the mapping the same call returns with the overload option *)
(* the other way round.                                                    *)
(***************************************************************************)
\* the file reports no error and all its values are literal
PlainFile(file) ==
    /\ ~file.err
    /\ \A n \in DOMAIN file.entries :
          \A m \in DOMAIN file.entries[n].parts : file.entries[n].parts[m].t = "lit"

AllPlain(f) == \A n \in DOMAIN f.files : FileThere(fs, f.files[n]) => PlainFile(fs[f.files[n]])

\* the options with overload on if it was off or absent, and off if it was on
OtherOverload(options) == Put(options, "overload", ~OverloadOn(options))

C28_OverloadSameWithoutReferences ==
    \A c \in CallIds :
        (Returned(c) /\ AllPlain(frame[c])) =>
            frame[c].processEnv =
                loadDotEnvFiles(frame[c].basePath, OtherOverload(frame[c].options), procEnv, fs).processEnv

\* overload on, A defined by the highest and the lowest candidate and by no
\* reference: the result is what the forward loop alone gives
C28_Witness ==
    /\ Returned(1) /\ OverloadOn(frame[1].options) /\ AllPlain(frame[1])
    /\ Defines(frame[1], 1, "A") /\ Defines(frame[1], 4, "A")
    /\ frame[1].processEnv = [A |-> frame[1].files[1]]
    /\ frame[1].overloadedEnv = frame[1].processEnv

(***************************************************************************)
(* C29: the runtime environment name in use is never the empty string, in  *)
(* a call and in the hook: an empty options.nodeEnv or an empty            *)
(* process.env.NODE_ENV counts as absent and the next default is taken, so *)
(* no candidate is named .env..local or .env.                              *)
(***************************************************************************)
C29_NodeEnvNeverEmpty ==
    /\ \A c \in CallIds :
          frame[c].pc \notin {"idle", "unused"} =>
              LET f == frame[c]
                  dir == IF f.basePath = "" THEN "" ELSE f.basePath \o "/"
              IN /\ f.nodeEnv # ""
                 /\ Range(f.files) \cap {dir \o ".env..local", dir \o ".env."} = {}
                 /\ (Has(f.options, "nodeEnv") /\ f.options.nodeEnv = "") =>
                       f.nodeEnv = (IF Has(procEnv, "NODE_ENV") /\ procEnv.NODE_ENV # ""
                                    THEN procEnv.NODE_ENV ELSE "development")
    /\ hook.pc \notin {"idle", "unused"} => hook.nodeEnv # ""

\* options.nodeEnv and process.env.NODE_ENV are both the empty string
C29_Witness ==
    /\ Returned(1)
    /\ Has(frame[1].options, "nodeEnv") /\ frame[1].options.nodeEnv = ""
    /\ Has(procEnv, "NODE_ENV") /\ procEnv.NODE_ENV = ""
    /\ frame[1].nodeEnv = "development"
    /\ frame[1].files[2] = EnvPath

(***************************************************************************)
(* C30: what the hook checks and loads is decided by the working directory *)
(* (input.cwd, else the configured directory), process.env.NODE_ENV and    *)
(* the files alone: it is what loadDotEnvFiles does for that directory and *)
(* name, whatever output.env held, so invocations that differ only in      *)
(* output.env consult the same candidates and resolve the same mapping.    *)
(***************************************************************************)
C30_OutputEnvNotConsulted ==
    hook.pc \in {"awaiting", "done"} =>
        LET dir == IF "cwd" \in DOMAIN hook.input THEN hook.input.cwd ELSE hook.directory
            name == IF Has(procEnv, "NODE_ENV") /\ procEnv.NODE_ENV # ""
                    THEN procEnv.NODE_ENV ELSE "development"
            alone == loadDotEnvFiles(dir, [nodeEnv |-> name], procEnv, fs)
        IN /\ IsPrefix(frame[1].trace, alone.trace)
           /\ hook.pc = "done" =>
                 /\ frame[1].trace = alone.trace
                 /\ hook.loaded = alone.processEnv

\* the host had set output.env.NODE_ENV to test; the hook consulted the
\* production candidates named by process.env and left the host's value
C30_Witness ==
    /\ hook.pc = "done"
    /\ hook.output.env["NODE_ENV"] = "test"
    /\ Truthy(procEnv, "NODE_ENV") /\ procEnv.NODE_ENV = "production"
    /\ Checked(frame[1]) = FourPaths(ProjectDir, "production")
    /\ Has(hook.loaded, "A") /\ hook.loaded["A"] = ProdPath
====
